---- MODULE Spec2Model ----
(***************************************************************************)
(* Model of notebooks/ImageCalibration.ipynb: statistical calibration of   *)
(* a CCD imaging process.  The notebook keeps its state in module-level    *)
(* arrays (a, b, g, E, w, sigma, e) that the "Step 4" cell updates in a    *)
(* loop; calc_E and calc_F fan their per-file work out to joblib workers.  *)
(*                                                                         *)
(* Floating point values are modelled as exact rationals <<n, d>> in       *)
(* lowest terms with d > 0, extended with the IEEE specials numpy produces *)
(* on a division by zero: <<1, 0>> is +inf, <<-1, 0>> is -inf and <<0, 0>> *)
(* is nan.  Rounding and the sign of zero are not modelled.                *)
(***************************************************************************)
EXTENDS Integers, Sequences, FiniteSets, TLC

\* ------------------------------------------------------------------------
\* Bounds of the model and constants of the program
\* ------------------------------------------------------------------------

\* data.shape[0]: number of frames of the video
num_files == 2

\* data.shape[1]: number of subsampled pixels per frame
num_pixels == 4

\* largest outer iteration count a run of the Step 4 cell is started with
MaxIterations == 1

\* how often the Step 4 cell is executed in one kernel session
MaxRuns == 3

\* def pool(data, k, z, eps=1)
EPS == 1

\* length of the response curve g (256 in the notebook) and number of
\* distinct code values a pixel may take
NumCodes == 4

Files == 0 .. (num_files - 1)

Pixels == 0 .. (num_pixels - 1)

Codes == 0 .. (NumCodes - 1)

\* ------------------------------------------------------------------------
\* float64 arithmetic as extended rationals
\* ------------------------------------------------------------------------

Abs(n) == IF n < 0 THEN -n ELSE n

Sign(n) == IF n < 0 THEN -1 ELSE IF n > 0 THEN 1 ELSE 0

RECURSIVE GCD(_, _)
GCD(m, n) == IF n = 0 THEN m ELSE GCD(n, m % n)

\* the value n/d in lowest terms; d = 0 gives +inf, -inf or nan
Norm(n, d) ==
  IF d = 0 THEN <<Sign(n), 0>>
  ELSE IF n = 0 THEN <<0, 1>>
  ELSE LET k == GCD(Abs(n), Abs(d))
       IN  <<(Sign(d) * n) \div k, Abs(d) \div k>>

Q(n) == <<n, 1>>

NaN == <<0, 0>>

IsNaN(x) == x = NaN

IsFinite(x) == x[2] # 0

\* (n1/d1) * (n2/d2) in lowest terms, each fraction reduced before multiplying
Frac(n1, d1, n2, d2) ==
  LET k1 == GCD(Abs(n1), Abs(d1))
      k2 == GCD(Abs(n2), Abs(d2))
  IN  IF k1 = 0 \/ k2 = 0 THEN Norm(n1 * n2, d1 * d2)
      ELSE Norm((n1 \div k1) * (n2 \div k2), (d1 \div k1) * (d2 \div k2))

\* x + y; inf + (-inf) and anything with nan is nan
RAdd(x, y) ==
  IF IsFinite(x) /\ IsFinite(y)
    THEN LET k == GCD(x[2], y[2])
         IN  Norm(x[1] * (y[2] \div k) + y[1] * (x[2] \div k), (x[2] \div k) * y[2])
  ELSE IF IsNaN(x) \/ IsNaN(y) THEN NaN
  ELSE IF IsFinite(x) THEN y
  ELSE IF IsFinite(y) THEN x
  ELSE IF x = y THEN x ELSE NaN

RNeg(x) == <<-x[1], x[2]>>

RSub(x, y) == RAdd(x, RNeg(y))

\* x * y; 0 * inf is nan
RMul(x, y) ==
  IF IsFinite(x) /\ IsFinite(y) THEN Frac(x[1], y[2], y[1], x[2])
  ELSE <<Sign(x[1]) * Sign(y[1]), 0>>

\* x / y as numpy divides float64: x/0 is +-inf (nan for 0/0), no exception
RDiv(x, y) ==
  IF IsFinite(x) /\ IsFinite(y) THEN Frac(x[1], x[2], y[2], y[1])
  ELSE IF IsNaN(x) \/ IsNaN(y) THEN NaN
  ELSE IF IsFinite(x) THEN <<0, 1>>
  ELSE IF IsFinite(y) THEN <<x[1] * (IF y[1] < 0 THEN -1 ELSE 1), 0>>
  ELSE NaN

\* x < y; every comparison with nan is false
RLt(x, y) ==
  IF IsNaN(x) \/ IsNaN(y) THEN FALSE
  ELSE IF IsFinite(x) /\ IsFinite(y)
    THEN LET k == GCD(x[2], y[2])
         IN  x[1] * (y[2] \div k) < y[1] * (x[2] \div k)
  ELSE IF IsFinite(x) THEN y[1] > 0
  ELSE IF IsFinite(y) THEN x[1] < 0
  ELSE x[1] < y[1]

RLe(x, y) == RLt(x, y) \/ (x = y /\ ~IsNaN(x))

\* sum(results): Python's sum starts from 0 and adds in index order
RECURSIVE RSumUpTo(_, _)
RSumUpTo(f, n) == IF n < 0 THEN Q(0) ELSE RAdd(RSumUpTo(f, n - 1), f[n])

\* np.mean over the values of vals at the (ascending) index set S; nan if S is empty
RECURSIVE RSumOver(_, _)
RSumOver(vals, S) ==
  IF S = {} THEN Q(0)
  ELSE LET m == CHOOSE x \in S : \A y \in S : x <= y
       IN  RAdd(vals[m], RSumOver(vals, S \ {m}))

Mean(vals, S) == RDiv(RSumOver(vals, S), Q(Cardinality(S)))

\* the r-th smallest (r from 0) of the values of vals, all of them not nan
Kth(vals, r) ==
  CHOOSE x \in {vals[p] : p \in DOMAIN vals} :
    /\ Cardinality({p \in DOMAIN vals : RLt(vals[p], x)}) <= r
    /\ Cardinality({p \in DOMAIN vals : RLe(vals[p], x)}) > r

\* np.median: nan if any value is nan, else the middle value or the mean of the two
Median(vals) ==
  LET n == Cardinality(DOMAIN vals)
  IN  IF \E p \in DOMAIN vals : IsNaN(vals[p]) THEN NaN
      ELSE IF n % 2 = 1 THEN Kth(vals, (n - 1) \div 2)
      ELSE RDiv(RAdd(Kth(vals, (n \div 2) - 1), Kth(vals, n \div 2)), Q(2))

\* ------------------------------------------------------------------------
\* Constants of the calibration
\* ------------------------------------------------------------------------

\* LEARN_RATE = 0.1
LEARN_RATE == <<1, 10>>

\* c = 1.265, the correction for the green band
C_GREEN == <<253, 200>>

\* ------------------------------------------------------------------------
\* Step 1: predicted irradiance (formula 9)
\* ------------------------------------------------------------------------

\* g_func(x): g[int(x)]
g_func(pg, z) == pg[z]

\* the mutant takes a fresh uniform weight in place of the weight it is handed
calc_E_single_freshweight(pw, pdata, pb, pa, pg, i) ==
  [p \in Pixels |->
     RDiv(RMul(Norm(1, num_files), RSub(g_func(pg, pdata[i][p]), pb[i])), pa[i])]

\* the mutant multiplies by the gain instead of dividing by it
calc_E_single_gainmul(pw, pdata, pb, pa, pg, i) ==
  [p \in Pixels |->
     RMul(RMul(pw[i], RSub(g_func(pg, pdata[i][p]), pb[i])), pa[i])]

\* w[i] * (g_func(data[i, :]) - b[i]) / a[i]
calc_E_single(pw, pdata, pb, pa, pg, i) ==
  [p \in Pixels |->
     RDiv(RMul(pw[i], RSub(g_func(pg, pdata[i][p]), pb[i])), pa[i])]

\* sum(results) of the per-file vectors
SumVectors(results) ==
  [p \in Pixels |-> RSumUpTo([i \in Files |-> results[i][p]], num_files - 1)]

calc_E(pw, pdata, pb, pa, pg) ==
  SumVectors([i \in Files |-> calc_E_single(pw, pdata, pb, pa, pg, i)])

\* ------------------------------------------------------------------------
\* Step 2: residual errors and pools (formulas 11 and 12)
\* ------------------------------------------------------------------------

\* the mutant also takes the pixels whose code differs by exactly eps
pool_inclusive(pdata, k, z, eps) ==
  {q \in Pixels : Abs(pdata[k][q] - z) <= eps}

\* mask = np.abs(image - z) < eps; mask.nonzero()
pool(pdata, k, z, eps) ==
  {q \in Pixels : Abs(pdata[k][q] - z) < eps}

\* errors_per_pixel = a[k] * E + b[k] - g_func(data[k, :])
errors_per_pixel(pdata, pE, pa, pb, pg, k) ==
  [p \in Pixels |->
     RSub(RAdd(RMul(pa[k], pE[p]), pb[k]), g_func(pg, pdata[k][p]))]

\* pool_errors[i, k] = np.mean([errors_per_pixel[y] for y in pool_z])
pool_errors(pdata, pE, pa, pb, pg) ==
  LET err == [k \in Files |-> errors_per_pixel(pdata, pE, pa, pb, pg, k)]
  IN  [p \in Pixels |-> [k \in Files |->
         Mean(err[k], pool(pdata, k, pdata[k][p], EPS))]]

\* median_errors[k] = 1.265 * np.median(errors_per_pixel - pool_errors[:, k])
median_errors(pdata, pE, pa, pb, pg) ==
  LET pe == pool_errors(pdata, pE, pa, pb, pg)
  IN  [k \in Files |->
         LET err == errors_per_pixel(pdata, pE, pa, pb, pg, k)
             dev == [p \in Pixels |-> RSub(err[p], pe[p][k])]
         IN  RMul(C_GREEN, Median(dev))]

\* ------------------------------------------------------------------------
\* Step 3: the forward model (formula 13)
\* ------------------------------------------------------------------------

\* args = zeros(2 * num_files + 256); args[0:num_files] = 1, unpacked
X0 ==
  [da |-> [i \in Files |-> Q(1)],
   db |-> [i \in Files |-> Q(0)],
   dg |-> [c \in Codes |-> Q(0)]]

\* the mutant does not skip the file itself
calc_F_single_noskip(pE, pda, pdb, pdg, pw, pdata, k, i, pa) ==
  [p \in Pixels |->
     RMul(RDiv(RMul(pw[i], pa[k]), pda[i]),
          RSub(RSub(pdg[pdata[i][p]], pdb[i]), RMul(pE[p], pda[i])))]

\* 0 for i == k, else w[i] * a[k] / da[i] * (dg_of_data - db[i] - E[:] * da[i])
calc_F_single(pE, pda, pdb, pdg, pw, pdata, k, i, pa) ==
  IF i = k THEN [p \in Pixels |-> Q(0)]
  ELSE [p \in Pixels |->
          RMul(RDiv(RMul(pw[i], pa[k]), pda[i]),
               RSub(RSub(pdg[pdata[i][p]], pdb[i]), RMul(pE[p], pda[i])))]

\* total += (w[k] - 1) * (g_func(data[k, :]) - b[k] - E[:] * a[k])
AddSelfTerm(total, pE, pw, pdata, k, pa, pb, pg) ==
  [p \in Pixels |->
     RAdd(total[p],
          RMul(RSub(pw[k], Q(1)),
               RSub(RSub(g_func(pg, pdata[k][p]), pb[k]), RMul(pE[p], pa[k]))))]

calc_F(pE, pda, pdb, pdg, pw, pdata, k, pa, pb, pg) ==
  AddSelfTerm(
    SumVectors([i \in Files |-> calc_F_single(pE, pda, pdb, pdg, pw, pdata, k, i, pa)]),
    pE, pw, pdata, k, pa, pb, pg)

\* ------------------------------------------------------------------------
\* State of the notebook kernel
\* ------------------------------------------------------------------------

VARIABLES
  green_channel,  \* data[:, :, 1]: [file][pixel] -> code
  a, b, g,        \* gain and bias per file, response curve per code
  E,              \* predicted irradiance per pixel
  w, sigma,       \* weight and error scale per file
  e,              \* pooled residuals e[pixel][file]
  F,              \* calc_F per file at the start vector, where minimize evaluates first
  da, db, dg,     \* corrections returned by calc_gradients
  pc,             \* position in the Step 4 cell
  j,              \* number of completed passes of the for loop
  NUM_LEARNING_ITERATIONS,
  kF,             \* file index of the running calc_F call
  jobs,           \* joblib tasks of the running Parallel call, one per file
  saved,          \* contents of a.param, b.param, g.param
  runs,           \* executions of the Step 4 cell so far
  ver,            \* number of parameter updates so far
  start,          \* (a, b, g) when the running execution of the cell began
  wEntry,         \* w when the running pass of the loop began
  hist            \* one record per completed update

vars ==
  <<green_channel, a, b, g, E, w, sigma, e, F, da, db, dg, pc, j,
    NUM_LEARNING_ITERATIONS, kF, jobs, saved, runs, ver, start, wEntry, hist>>

params == <<a, b, g>>

ZeroVec == [p \in Pixels |-> Q(0)]

NoJobs == [i \in Files |-> [st |-> "none", rd |-> 0, out |-> ZeroVec]]

\* ------------------------------------------------------------------------
\* Frames delivered by the loader: every file shows one of a few patterns
\* ------------------------------------------------------------------------

\* pixel p of pattern n
PatternPixel(n, p) ==
  CASE n = 0 -> 1
    [] n = 1 -> (IF p = 0 THEN 3 ELSE 1)
    [] n = 2 -> (IF p = 1 THEN 3 ELSE 1)
    [] n = 3 -> (IF p % 2 = 0 THEN 2 ELSE 1)
    [] OTHER -> p % NumCodes

NumPatterns == 5

Patterns == {[p \in Pixels |-> PatternPixel(n, p)] : n \in 0 .. (NumPatterns - 1)}

\* frame sets the calibration loop is run on
LoopFrameSets ==
  {[k \in Files |-> [p \in Pixels |-> PatternPixel(1 + (k % 2), p)]],
   [k \in Files |-> [p \in Pixels |-> PatternPixel(3 * (k % 2), p)]]}

\* ------------------------------------------------------------------------
\* Results the minimizer may hand back
\* ------------------------------------------------------------------------

\* the vector with every da[i] = x and db[i] = x, and dg = x at code 3 only
Step(x) ==
  [da |-> [i \in Files |-> x],
   db |-> [i \in Files |-> x],
   dg |-> [c \in Codes |-> IF c = 3 THEN x ELSE Q(0)]]

\* res.x of scipy's unconstrained minimize, unpacked: the start vector itself, a
\* step and its opposite
SolverResults == {X0, Step(Q(-10)), Step(Q(10))}

\* ------------------------------------------------------------------------
\* The notebook: initialisation cell and the Step 4 cell
\* ------------------------------------------------------------------------

\* a = [1 ...]; b = [0 ...]; g = [i for i in range(256)]; E = zeros; w = ones / num_files;
\* sigma = ones; F = zeros
Init ==
  /\ green_channel \in LoopFrameSets
  /\ a = [i \in Files |-> Q(1)]
  /\ b = [i \in Files |-> Q(0)]
  /\ g = [c \in Codes |-> Q(c)]
  /\ E = ZeroVec
  /\ w = [i \in Files |-> Norm(1, num_files)]
  /\ sigma = [i \in Files |-> Q(1)]
  /\ F = [i \in Files |-> Q(0)]
  /\ e = <<>>
  /\ da = <<>> /\ db = <<>> /\ dg = <<>>
  /\ pc = "idle"
  /\ j = 0
  /\ NUM_LEARNING_ITERATIONS = 0
  /\ kF = 0
  /\ jobs = NoJobs
  /\ saved = <<>>
  /\ runs = 0
  /\ ver = 0
  /\ start = <<>>
  /\ wEntry = <<>>
  /\ hist = {}

\* the Step 4 cell is executed (again) in the same kernel, with the given constant
RunCell(n) ==
  /\ pc \in {"idle", "raised", "done"}
  /\ runs < MaxRuns
  /\ runs' = runs + 1
  /\ NUM_LEARNING_ITERATIONS' = n
  /\ j' = 0
  /\ start' = params
  /\ pc' = "for"
  /\ UNCHANGED <<green_channel, a, b, g, E, w, sigma, e, F, da, db, dg, kF,
                 jobs, saved, ver, wEntry, hist>>

\* the mutant runs the body once more than range() allows
LoopContinues_offbyone(i, n) == i <= n

\* for j in range(NUM_LEARNING_ITERATIONS)
LoopContinues(i, n) == i < n

ForLoop ==
  /\ pc = "for"
  /\ pc' = IF LoopContinues(j, NUM_LEARNING_ITERATIONS) THEN "calc_E" ELSE "dump"
  /\ UNCHANGED <<green_channel, a, b, g, E, w, sigma, e, F, da, db, dg, j,
                 NUM_LEARNING_ITERATIONS, kF, jobs, saved, runs, ver, start, wEntry,
                 hist>>

\* Parallel(...)(delayed(f)(...) for i in range(num_files)): one task per file
Dispatch == [i \in Files |-> [st |-> "queued", rd |-> 0, out |-> ZeroVec]]

\* E = calc_E(w, green_channel, b, a): the tasks are handed to the workers
CalcE_Dispatch ==
  /\ pc = "calc_E"
  /\ jobs' = Dispatch
  /\ wEntry' = w
  /\ pc' = "calc_E_wait"
  /\ UNCHANGED <<green_channel, a, b, g, E, w, sigma, e, F, da, db, dg, j,
                 NUM_LEARNING_ITERATIONS, kF, saved, runs, ver, start, hist>>

\* what task i of the running Parallel call computes from the state it reads
JobResult(i) ==
  IF pc = "calc_E_wait"
    THEN calc_E_single(w, green_channel, b, a, g, i)
    ELSE calc_F_single(E, X0.da, X0.db, X0.dg, w, green_channel, kF, i, a)

\* a worker takes task i, reads its arguments and computes
JobStart(i) ==
  /\ pc \in {"calc_E_wait", "calc_F_wait"}
  /\ jobs[i].st = "queued"
  /\ jobs' = [jobs EXCEPT ![i] = [st |-> "running", rd |-> ver, out |-> JobResult(i)]]
  /\ UNCHANGED <<green_channel, a, b, g, E, w, sigma, e, F, da, db, dg, pc, j,
                 NUM_LEARNING_ITERATIONS, kF, saved, runs, ver, start, wEntry, hist>>

\* the worker hands the result of task i back
JobFinish(i) ==
  /\ pc \in {"calc_E_wait", "calc_F_wait"}
  /\ jobs[i].st = "running"
  /\ jobs' = [jobs EXCEPT ![i].st = "done"]
  /\ UNCHANGED <<green_channel, a, b, g, E, w, sigma, e, F, da, db, dg, pc, j,
                 NUM_LEARNING_ITERATIONS, kF, saved, runs, ver, start, wEntry, hist>>

\* the mutant returns as soon as every task has been taken by a worker
ParallelReturns_early(js) == \A i \in Files : js[i].st \in {"running", "done"}

\* the Parallel call returns the list of results once every task has completed
ParallelReturns(js) == \A i \in Files : js[i].st = "done"

Results == [i \in Files |-> jobs[i].out]

\* return sum(results)
CalcE_Reduce ==
  /\ pc = "calc_E_wait"
  /\ ParallelReturns(jobs)
  /\ E' = SumVectors(Results)
  /\ pc' = "calc_e"
  /\ UNCHANGED <<green_channel, a, b, g, w, sigma, e, F, da, db, dg, j,
                 NUM_LEARNING_ITERATIONS, kF, jobs, saved, runs, ver, start, wEntry,
                 hist>>

\* e, median_errors = calc_e(green_channel, E, a, b); w = 1 / median_errors;
\* sigma = median_errors
CalcResiduals ==
  /\ pc = "calc_e"
  /\ LET me == median_errors(green_channel, E, a, b, g)
     IN  /\ e' = pool_errors(green_channel, E, a, b, g)
         /\ w' = [k \in Files |-> RDiv(Q(1), me[k])]
         /\ sigma' = me
  /\ kF' = 0
  /\ pc' = "calc_F"
  /\ UNCHANGED <<green_channel, a, b, g, E, F, da, db, dg, j,
                 NUM_LEARNING_ITERATIONS, jobs, saved, runs, ver, start, wEntry, hist>>

\* calc_gradients: minimize evaluates calc_total_F_error at the start vector first,
\* which calls calc_F for one file after the other
CalcF_Dispatch ==
  /\ pc = "calc_F"
  /\ kF < num_files
  /\ jobs' = Dispatch
  /\ pc' = "calc_F_wait"
  /\ UNCHANGED <<green_channel, a, b, g, E, w, sigma, e, F, da, db, dg, j,
                 NUM_LEARNING_ITERATIONS, kF, saved, runs, ver, start, wEntry, hist>>

\* total = sum(results); total += the term of file k itself
CalcF_Reduce ==
  /\ pc = "calc_F_wait"
  /\ ParallelReturns(jobs)
  /\ F' = [F EXCEPT ![kF] =
             AddSelfTerm(SumVectors(Results), E, w, green_channel, kF, a, b, g)]
  /\ kF' = kF + 1
  /\ pc' = "calc_F"
  /\ UNCHANGED <<green_channel, a, b, g, E, w, sigma, e, da, db, dg, j,
                 NUM_LEARNING_ITERATIONS, jobs, saved, runs, ver, start, wEntry, hist>>

\* res = minimize(calc_total_F_error, args, options={"maxiter": 10}); da, db, dg = res.x
Minimize(res) ==
  /\ pc = "calc_F"
  /\ kF = num_files
  /\ da' = res.da /\ db' = res.db /\ dg' = res.dg
  /\ pc' = "update"
  /\ UNCHANGED <<green_channel, a, b, g, E, w, sigma, e, F, j,
                 NUM_LEARNING_ITERATIONS, kF, jobs, saved, runs, ver, start, wEntry,
                 hist>>

\* v - LEARN_RATE * dv, entry by entry
Damped(v, dv) == [i \in DOMAIN v |-> RSub(v[i], RMul(LEARN_RATE, dv[i]))]

\* a = a - LEARN_RATE * da; b = b - LEARN_RATE * db; g = g - LEARN_RATE * dg
Update ==
  /\ pc = "update"
  /\ a' = Damped(a, da)
  /\ b' = Damped(b, db)
  /\ g' = Damped(g, dg)
  /\ ver' = ver + 1
  /\ hist' = hist \cup {[a |-> a, b |-> b, g |-> g, w |-> wEntry, E |-> E,
                         da |-> da, db |-> db, dg |-> dg,
                         a2 |-> a', b2 |-> b', g2 |-> g']}
  /\ pc' = "plot"
  /\ UNCHANGED <<green_channel, E, w, sigma, e, F, da, db, dg, j,
                 NUM_LEARNING_ITERATIONS, kF, jobs, saved, runs, start, wEntry>>

\* def calibrate(img, a, b, g)
CalibrateParameters == 4

\* plt.imshow(calibrate(example_img))
CalibrateArguments == 1

\* plt.imshow(calibrate(example_img)): the call does not match calibrate's signature
\* and raises, which ends the cell; otherwise the next pass begins
Plot ==
  /\ pc = "plot"
  /\ IF CalibrateArguments = CalibrateParameters
       THEN pc' = "for" /\ j' = j + 1
       ELSE pc' = "raised" /\ j' = j
  /\ UNCHANGED <<green_channel, a, b, g, E, w, sigma, e, F, da, db, dg,
                 NUM_LEARNING_ITERATIONS, kF, jobs, saved, runs, ver, start, wEntry,
                 hist>>

\* pickle.dump(a, ...); pickle.dump(b, ...); pickle.dump(g, ...)
Dump ==
  /\ pc = "dump"
  /\ saved' = params
  /\ pc' = "done"
  /\ UNCHANGED <<green_channel, a, b, g, E, w, sigma, e, F, da, db, dg, j,
                 NUM_LEARNING_ITERATIONS, kF, jobs, runs, ver, start, wEntry, hist>>

Next ==
  \/ \E n \in 0 .. MaxIterations : RunCell(n)
  \/ ForLoop
  \/ CalcE_Dispatch
  \/ \E i \in Files : JobStart(i)
  \/ \E i \in Files : JobFinish(i)
  \/ CalcE_Reduce
  \/ CalcResiduals
  \/ CalcF_Dispatch
  \/ CalcF_Reduce
  \/ \E res \in SolverResults : Minimize(res)
  \/ Update
  \/ Plot
  \/ Dump

Spec == Init /\ [][Next]_vars

\* ------------------------------------------------------------------------
\* Properties of the Step 4 cell
\* ------------------------------------------------------------------------

Cell4Ended == pc \in {"done", "raised"}

\* C1: started with iteration count N, the cell never leaves the loop early: it ends
\* only after N passes, with the final (a, b, g) handed to the persistence step.
C1_LoopRunsAllIterations ==
  Cell4Ended =>
    /\ pc = "done"
    /\ j = NUM_LEARNING_ITERATIONS
    /\ saved = params

\* C2: with N = 0 the cell goes straight to the persistence step and the output
\* (a, b, g) equals, entry for entry, the triple the cell was started with.
C2_ZeroIterationsUnchanged ==
  (NUM_LEARNING_ITERATIONS = 0 /\ pc \notin {"idle", "for"}) =>
    /\ pc \in {"dump", "done"}
    /\ params = start
    /\ (pc = "done" => saved = start)

\* a run with N = 0 on a model that earlier runs have already updated
C2_Witness ==
  /\ pc = "done"
  /\ NUM_LEARNING_ITERATIONS = 0
  /\ ver > 0
  /\ saved = start

\* C3: whatever corrections the solver returns, no entry of the gain vector is zero.
C3_GainNonZero == \A i \in Files : a[i] # Q(0)

TaskActive(i) == jobs[i].st \in {"queued", "running"}

InPass == pc \in {"calc_E_wait", "calc_e", "calc_F", "calc_F_wait", "update"}

\* C9: a, b and g change only in the update step and only while no worker task is
\* queued or running, and every task started in a pass has read the parameters as
\* the previous update left them.
C9_UpdateOnlyBetweenTasks ==
  /\ [][params' # params => (pc = "update" /\ \A i \in Files : ~TaskActive(i))]_vars
  /\ [](InPass => \A i \in Files :
          jobs[i].st \in {"running", "done"} => jobs[i].rd = ver)

\* the second update has been applied after all tasks of its pass completed
C9_Witness ==
  /\ pc = "plot"
  /\ ver = 2
  /\ \A i \in Files : jobs[i].st = "done" /\ jobs[i].rd = 1

\* a recorded pass in which no weight and no irradiance is inf or nan
FinitePass(h) ==
  /\ \A i \in Files : IsFinite(h.w[i])
  /\ \A p \in Pixels : IsFinite(h.E[p])

Formula9(pw, pa, pb, pg) ==
  [p \in Pixels |->
     RSumUpTo([i \in Files |->
                 RDiv(RMul(pw[i], RSub(pg[green_channel[i][p]], pb[i])), pa[i])],
              num_files - 1)]

Alternating(x, y) == [k \in Files |-> IF k % 2 = 0 THEN x ELSE y]

FrameSets == {Alternating(m, n) : m, n \in Patterns}

GainValues == {Q(0), Q(1), Q(2), <<1, 2>>}

GainVectors == {Alternating(x, y) : x, y \in GainValues}

NonZeroGainVectors == {Alternating(x, y) : x, y \in GainValues \ {Q(0)}}

BiasValues == {Q(0), Q(1)}

BiasVectors == {Alternating(x, y) : x, y \in BiasValues}

\* g = [i for i in range(256)], and a curve as later updates may leave it
IdentityCurve == [c \in Codes |-> Q(c)]

Curves == {IdentityCurve, [c \in Codes |-> RSub(Q(2 * c), <<1, 2>>)]}

OneHot(k) == [i \in Files |-> IF i = k THEN Q(1) ELSE Q(0)]

Split(k) ==
  [i \in Files |-> IF i = k THEN <<1, 4>>
                   ELSE IF i = (k + 1) % num_files THEN <<3, 4>> ELSE Q(0)]

\* w = np.ones(num_files) / num_files, and weights as w = 1 / median_errors may leave them
WeightVectors ==
  {[i \in Files |-> Norm(1, num_files)], [i \in Files |-> Q(1)]}
    \cup {OneHot(k) : k \in Files} \cup {Split(k) : k \in Files}

IrradianceMaps ==
  {[p \in Pixels |-> Q(0)], [p \in Pixels |-> Q(p + 1)], [p \in Pixels |-> <<1, 2>>]}

\* the arguments of a call and the state no call touches
InitArgs(entry, gains) ==
  /\ green_channel \in FrameSets
  /\ a \in gains
  /\ b \in BiasVectors
  /\ g \in Curves
  /\ sigma = [i \in Files |-> Q(1)]
  /\ F = [i \in Files |-> Q(0)]
  /\ e = <<>>
  /\ da = <<>> /\ db = <<>> /\ dg = <<>>
  /\ pc = entry
  /\ j = 0
  /\ NUM_LEARNING_ITERATIONS = 0
  /\ jobs = NoJobs
  /\ saved = <<>>
  /\ runs = 0
  /\ ver = 0
  /\ start = <<>>
  /\ wEntry = <<>>
  /\ hist = {}

InitE ==
  /\ InitArgs("call_calc_E", GainVectors)
  /\ w \in WeightVectors
  /\ E = ZeroVec
  /\ kF = 0

\* E = calc_E(w, green_channel, b, a)
Call_calc_E ==
  /\ pc = "call_calc_E"
  /\ E' = calc_E(w, green_channel, b, a, g)
  /\ pc' = "ret_calc_E"
  /\ UNCHANGED <<green_channel, a, b, g, w, sigma, e, F, da, db, dg, j,
                 NUM_LEARNING_ITERATIONS, kF, jobs, saved, runs, ver, start, wEntry,
                 hist>>

NextE == Call_calc_E

SpecE == InitE /\ [][NextE]_vars

InitPool ==
  /\ InitArgs("call_calc_e", NonZeroGainVectors)
  /\ w = [i \in Files |-> Norm(1, num_files)]
  /\ E \in IrradianceMaps
  /\ kF = 0

\* e, median_errors = calc_e(green_channel, E, a, b)
Call_calc_e ==
  /\ pc = "call_calc_e"
  /\ e' = pool_errors(green_channel, E, a, b, g)
  /\ sigma' = median_errors(green_channel, E, a, b, g)
  /\ pc' = "ret_calc_e"
  /\ UNCHANGED <<green_channel, a, b, g, E, w, F, da, db, dg, j,
                 NUM_LEARNING_ITERATIONS, kF, jobs, saved, runs, ver, start, wEntry,
                 hist>>

NextPool == Call_calc_e

SpecPool == InitPool /\ [][NextPool]_vars

InitF ==
  /\ InitArgs("call_calc_F", NonZeroGainVectors)
  /\ w \in WeightVectors
  /\ E \in IrradianceMaps
  /\ kF \in Files

\* F = calc_F(E, da, db, dg, w, data, k) at the start vector of calc_gradients
Call_calc_F ==
  /\ pc = "call_calc_F"
  /\ F' = [F EXCEPT ![kF] =
             calc_F(E, X0.da, X0.db, X0.dg, w, green_channel, kF, a, b, g)]
  /\ pc' = "ret_calc_F"
  /\ UNCHANGED <<green_channel, a, b, g, E, w, sigma, e, da, db, dg, j,
                 NUM_LEARNING_ITERATIONS, kF, jobs, saved, runs, ver, start, wEntry,
                 hist>>

NextF == Call_calc_F

SpecF == InitF /\ [][NextF]_vars

\* ------------------------------------------------------------------------
\* Properties of the functions
\* ------------------------------------------------------------------------

\* a[k] * E[p] + b[k] - g[code of p in frame k]
RawResidual(k, p) ==
  RSub(RAdd(RMul(a[k], E[p]), b[k]), g[green_channel[k][p]])

\* C4: the pool of pixel p in frame k is exactly the set of pixels of frame k whose
\* code is within +/-1 of p's code, and the pooled residual of p is the mean raw
\* residual over that set.
C4_PoolWithinOneCode ==
  pc = "ret_calc_e" =>
    \A k \in Files : \A p \in Pixels :
      LET S == {q \in Pixels : Abs(green_channel[k][q] - green_channel[k][p]) <= 1}
      IN  /\ pool(green_channel, k, green_channel[k][p], EPS) = S
          /\ e[p][k] = Mean([q \in Pixels |-> RawResidual(k, q)], S)

\* no other pixel of frame k has a code within the tolerance of p's code
UniqueCode(k, p) ==
  \A q \in Pixels \ {p} : Abs(green_channel[k][q] - green_channel[k][p]) >= EPS

C6_ZeroGainNeverReturns ==
  pc = "ret_calc_E" => \A i \in Files : a[i] # Q(0)

\* C7: at the no-correction point (da = 1, db = 0, dg = 0) the forward model of
\* frame k is 0 at every pixel when w[k] = 1 and every other weight is 0.
C7_ForwardModelZero ==
  (pc = "ret_calc_F" /\ w = OneHot(kF)) =>
    \A p \in Pixels : F[kF][p] = Q(0)

\* the case where the skipped term and the factor of the self term are both non-zero
C7_Witness ==
  /\ pc = "ret_calc_F"
  /\ w = OneHot(kF)
  /\ a[kF] # Q(0)
  /\ \E p \in Pixels :
       /\ E[p] # Q(0)
       /\ RSub(RSub(g[green_channel[kF][p]], b[kF]), RMul(E[p], a[kF])) # Q(0)
       /\ F[kF][p] = Q(0)

SumOfWeights == RSumUpTo(w, num_files - 1)

IdenticalFrames == \A k \in Files : green_channel[k] = green_channel[0]

SharedGainAndBias == \A k \in Files : a[k] = a[0] /\ b[k] = b[0]

\* C8: with identical frames, the identity curve and a non-zero gain and a bias
\* shared by all frames, the irradiance of every pixel is (sample - bias) / gain,
\* however weights that sum to 1 are spread over the frames.
C8_IdenticalFramesIrradiance ==
  (/\ pc = "ret_calc_E"
   /\ IdenticalFrames
   /\ g = IdentityCurve
   /\ SharedGainAndBias
   /\ a[0] # Q(0)
   /\ SumOfWeights = Q(1)) =>
    \A p \in Pixels : E[p] = RDiv(RSub(Q(green_channel[0][p]), b[0]), a[0])

\* unequal weights, a gain other than 1 and a bias other than 0
C8_Witness ==
  /\ pc = "ret_calc_E"
  /\ IdenticalFrames
  /\ g = IdentityCurve
  /\ SharedGainAndBias
  /\ a[0] = Q(2)
  /\ b[0] = Q(1)
  /\ w = Split(0)
  /\ \E p \in Pixels : E[p] = Q(1)

====
